---------------------------- MODULE Spec2Model ----------------------------
(* Booking transaction engine of src/service/event.service.js:            *)
(* createEvent, updateEvent, deleteEvent, toggleEventStatus,              *)
(* checkVariationAvailability and the stores they read and write (Event,  *)
(* EventService, Invoice, InvoiceDetail, Payment, Reviews), and the       *)
(* status codes of src/controller/eventController.js.                     *)
(* Times are whole hours, money is whole currency units.                  *)
EXTENDS Integers, Sequences, FiniteSets, TLC

VARIABLES
    events,          \* event_id -> Event row
    eventServices,   \* event_id -> sequence of EventService rows (insertion order)
    invoices,        \* event_id -> Invoice row (at most one per event)
    invoiceDetails,  \* event_id -> sequence of InvoiceDetail rows of its invoice
    nextEventId,     \* the autoincrement of Event.event_id
    notifications,   \* event_ids a "Booking Successful" notification was sent for
    payments,        \* event_id -> number of Payment rows of the event
    reviews,         \* event_id -> number of Reviews rows of the event
    last,            \* the last call: its payload, its result, the rows it saw
    observe,         \* whether calls are recorded in `last` (fixed by Init)
    txs              \* in-flight createEvent transactions (concurrent runs only)

vars == <<events, eventServices, invoices, invoiceDetails, nextEventId,
          notifications, payments, reviews, last, observe, txs>>

stores == <<events, eventServices, invoices, invoiceDetails, nextEventId,
            notifications, payments, reviews>>

(* ------------------------------ bounds -------------------------------- *)
MaxEvents == 2
MaxTime == 3
MaxCost == 400
MaxTxs == 2
MaxCalls == 3
MaxDependents == 2

(* --------------------------- JS value model --------------------------- *)
\* null: what a nullable column holds, and an explicit null of a payload
NULL == -1
\* undefined: a field the payload does not carry
UNDEF == -2
\* a status the payload does not carry
NOSTATUS == "undefined"

\* JS truthiness of a number-or-absent value: undefined, null and 0 are falsy
Truthy(v) == v # UNDEF /\ v # NULL /\ v # 0

EVENT_STATUSES ==
    {"PENDING", "ACCEPTED", "CONFIRMED", "IN_PROGRESS", "COMPLETED",
     "CANCELLED", "RESCHEDULED"}

(* ------------------- read-only collaborator tables -------------------- *)
\* tx.room rows: two bookable rooms with the same base price, one closed room
Room ==
    [r \in {1, 2, 3} |->
        CASE r = 1 -> [is_active |-> TRUE, status |-> "AVAILABLE",
                       base_price |-> 100, hourly_rate |-> 20, room_name |-> "R1"]
          [] r = 2 -> [is_active |-> TRUE, status |-> "AVAILABLE",
                       base_price |-> 100, hourly_rate |-> 0, room_name |-> "R2"]
          [] r = 3 -> [is_active |-> TRUE, status |-> "MAINTENANCE",
                       base_price |-> 60, hourly_rate |-> 10, room_name |-> "R3"]]

\* tx.variation rows: a priced variation, an inactive one and a free one
Variation ==
    [v \in {1, 2, 3} |->
        CASE v = 1 -> [is_active |-> TRUE, base_price |-> 30, variation_name |-> "V1"]
          [] v = 2 -> [is_active |-> FALSE, base_price |-> 40, variation_name |-> "V2"]
          [] v = 3 -> [is_active |-> TRUE, base_price |-> 0, variation_name |-> "V3"]]

\* tx.account rows
Account == {1}

\* tx.eventType rows
EventType == [t \in {1, 2} |-> [is_active |-> (t = 1)]]

(* ------------------------------ helpers ------------------------------- *)
Min(S) == CHOOSE x \in S : \A y \in S : x <= y

\* createValidationResult(isValid, errors, data)
createValidationResult(isValid, error, data) ==
    [isValid |-> isValid, error |-> error, data |-> data]

NoData == {}

\* handleError(context, error): createValidationResult(false, [error.message])
handleError(message) == createValidationResult(FALSE, message, NoData)

(* ----------------------------- validation ----------------------------- *)
\* validateString(value, name, {required: true, minLength, ...})
validateString(value) == value # ""

\* validateDateRange(start, end): both dates given and start before end
validateDateRange(start, end) == Truthy(start) /\ Truthy(end) /\ start < end

\* validateNumber(value, name, {min: 0})
validateNumber(value) == value >= 0

\* mutant: the status of a request is not validated
StatusInvalidNever(status) == FALSE

\* if (eventData.status) { if (!EVENT_STATUSES.includes(eventData.status)) ... }:
\* an absent status and the empty string are skipped
StatusInvalid(status) ==
    status \notin {NOSTATUS, ""} /\ status \notin EVENT_STATUSES

\* validateEventData: the first error it pushes, "" when there is none
validateEventData(d) ==
    IF ~validateString(d.event_name) THEN "Event name is required"
    ELSE IF ~validateDateRange(d.start_time, d.end_time) THEN "Invalid event date range"
    ELSE IF Truthy(d.estimated_cost) /\ ~validateNumber(d.estimated_cost)
        THEN "Invalid estimated cost"
    ELSE IF StatusInvalid(d.status) THEN "Invalid event status"
    ELSE ""

\* validateEventServiceData: the first error of one service line, "" when none
validateEventServiceData(s) ==
    IF ~Truthy(s.service_id) THEN "Service ID is required"
    ELSE IF s.quantity # UNDEF /\ s.quantity < 1 THEN "Invalid quantity"
    ELSE IF s.custom_price # UNDEF /\ s.custom_price < 0 THEN "Invalid custom price"
    ELSE ""

(* ---------------------------- availability ---------------------------- *)
\* mutant: endpoints that touch count as an overlap
OverlapsTouching(startTime, endTime, evStart, evEnd) ==
    startTime <= evEnd /\ endTime >= evStart

\* the strict interval test: startTime < evEnd && endTime > evStart
Overlaps(startTime, endTime, evStart, evEnd) ==
    startTime < evEnd /\ endTime > evStart

\* (ev.duration_hours || 0)
StoredDuration(row) == IF Truthy(row.duration_hours) THEN row.duration_hours ELSE 0

\* the stored CONFIRMED lines of a variation, each named <<event_id, position>>
ConfirmedLines(variation_id) ==
    {k \in UNION {{<<e, i>> : i \in DOMAIN eventServices[e]} :
                      e \in DOMAIN eventServices} :
        /\ eventServices[k[1]][k[2]].variation_id = variation_id
        /\ eventServices[k[1]][k[2]].status = "CONFIRMED"}

LineOf(k) == eventServices[k[1]][k[2]]

\* mutant: the pre-filter keeps the lines that start at or after the proposed
\* end (gte for lte)
CandidatesFromEnd(variation_id, endTime) ==
    {k \in ConfirmedLines(variation_id) :
        /\ LineOf(k).scheduled_time # NULL
        /\ LineOf(k).scheduled_time >= endTime}

\* tx.eventService.findMany({variation_id, status: "CONFIRMED",
\*                           scheduled_time: {lte: endTime}})
Candidates(variation_id, endTime) ==
    {k \in ConfirmedLines(variation_id) :
        /\ LineOf(k).scheduled_time # NULL
        /\ LineOf(k).scheduled_time <= endTime}

\* candidates.filter(ev => startTime < evEnd && endTime > evStart)
ConflictingEvents(variation_id, startTime, endTime) ==
    {k \in Candidates(variation_id, endTime) :
        Overlaps(startTime, endTime, LineOf(k).scheduled_time,
                 LineOf(k).scheduled_time + StoredDuration(LineOf(k)))}

checkVariationAvailability(variation_id, scheduled_time, duration_hours) ==
    IF ~Truthy(variation_id) \/ ~Truthy(scheduled_time) \/ ~Truthy(duration_hours)
    THEN createValidationResult(FALSE,
            "Variation ID, scheduled time, and duration are required", NoData)
    ELSE IF variation_id \notin DOMAIN Variation \/ ~Variation[variation_id].is_active
    THEN createValidationResult(FALSE, "Variation not found or inactive", NoData)
    ELSE LET conflictingEvents ==
                 ConflictingEvents(variation_id, scheduled_time,
                                   scheduled_time + duration_hours)
         IN  IF conflictingEvents # {}
             THEN createValidationResult(FALSE,
                     "Variation is busy during the requested time slot",
                     conflictingEvents)
             ELSE createValidationResult(TRUE, "", NoData)

\* room.service.js checkRoomAvailability(room_id, start_time, end_time = null,
\* duration_hours, excludeEventId, tx): the CONFIRMED events of the room, but the
\* excluded one, whose window [start_time, end_time) overlaps the proposed one
RoomConflicts(room_id, start_time, duration_hours, excludeEventId) ==
    {e \in DOMAIN events :
        /\ e # excludeEventId
        /\ events[e].room_id = room_id
        /\ events[e].status = "CONFIRMED"
        /\ events[e].start_time <= start_time + duration_hours
        /\ Overlaps(start_time, start_time + duration_hours,
                    events[e].start_time, events[e].end_time)}

checkRoomAvailability(room_id, start_time, duration_hours, excludeEventId) ==
    IF room_id \notin DOMAIN Room \/ ~Room[room_id].is_active
          \/ Room[room_id].status # "AVAILABLE"
    THEN [isValid |-> TRUE, isAvailable |-> FALSE,
          reason |-> "Room is not available", conflicts |-> {}]
    ELSE LET conflicts == RoomConflicts(room_id, start_time, duration_hours,
                                        excludeEventId)
         IN  [isValid |-> TRUE, isAvailable |-> (conflicts = {}),
              reason |-> IF conflicts = {} THEN ""
                         ELSE "Room is already booked for the requested time",
              conflicts |-> conflicts]

(* -------------------------------- cost -------------------------------- *)
\* variation?.base_price || 0
VariationBasePrice(variation_id) ==
    IF Truthy(variation_id) /\ variation_id \in DOMAIN Variation
    THEN Variation[variation_id].base_price ELSE 0

\* Number(service.custom_price || variationBasePrice)
ServiceUnitPrice(service) ==
    IF Truthy(service.custom_price) THEN service.custom_price
    ELSE VariationBasePrice(service.variation_id)

\* Number(service.quantity || 1)
ServiceQuantity(service) == IF Truthy(service.quantity) THEN service.quantity ELSE 1

\* what one pass of the service loop adds to calculatedEstimatedCost
ServiceSubtotal(service) == ServiceUnitPrice(service) * ServiceQuantity(service)

RECURSIVE ServicesCost(_)
ServicesCost(event_services) ==
    IF event_services = <<>> THEN 0
    ELSE ServiceSubtotal(Head(event_services)) + ServicesCost(Tail(event_services))

\* Number(room.base_price || 0), plus hourly_rate * duration_hours when
\* duration_hours && room.hourly_rate
RoomCost(room_id, duration_hours) ==
    Room[room_id].base_price
      + (IF Truthy(duration_hours) /\ Truthy(Room[room_id].hourly_rate)
         THEN Room[room_id].hourly_rate * duration_hours ELSE 0)

(* ------------------------- the service-line loop ---------------------- *)
\* one pass of "for (const service of event_services)": the result it returns,
\* isValid when the loop goes on
ServiceLineCheck(service) ==
    IF validateEventServiceData(service) # ""
    THEN createValidationResult(FALSE, validateEventServiceData(service), NoData)
    ELSE IF Truthy(service.variation_id) /\ Truthy(service.scheduled_time)
              /\ Truthy(service.duration_hours)
    THEN checkVariationAvailability(service.variation_id, service.scheduled_time,
                                    service.duration_hours)
    ELSE createValidationResult(TRUE, "", NoData)

\* the loop over the request's lines: the first negative result, or a positive one
ServiceLoop(event_services) ==
    LET bad == {i \in DOMAIN event_services :
                   ~ServiceLineCheck(event_services[i]).isValid}
    IN  IF bad = {} THEN createValidationResult(TRUE, "", NoData)
        ELSE ServiceLineCheck(event_services[Min(bad)])

(* ------------------------------ the rows ------------------------------ *)
\* a value || null
OrNull(v) == IF Truthy(v) THEN v ELSE NULL

\* one element of tx.eventService.createMany({data: event_services.map(...)})
EventServiceRow(service) ==
    [service_id     |-> service.service_id,
     variation_id   |-> OrNull(service.variation_id),
     quantity       |-> ServiceQuantity(service),
     custom_price   |-> OrNull(service.custom_price),
     status         |-> IF service.status = NOSTATUS THEN "CONFIRMED"
                        ELSE service.status,
     scheduled_time |-> OrNull(service.scheduled_time),
     duration_hours |-> OrNull(service.duration_hours)]

EventServiceRows(event_services) ==
    [i \in DOMAIN event_services |-> EventServiceRow(event_services[i])]

\* the InvoiceDetail of the room: quantity 1, unit_price and subtotal base_price
RoomDetail(room_id) ==
    [item_name |-> Room[room_id].room_name, quantity |-> 1,
     unit_price |-> Room[room_id].base_price, subtotal |-> Room[room_id].base_price,
     item_type |-> "ROOM", service_id |-> NULL, variation_id |-> NULL]

\* the InvoiceDetail of one service line of the request
ServiceDetail(service) ==
    [item_name |-> IF Truthy(service.variation_id)
                        /\ service.variation_id \in DOMAIN Variation
                   THEN Variation[service.variation_id].variation_name
                   ELSE "Service",
     quantity |-> ServiceQuantity(service),
     unit_price |-> ServiceUnitPrice(service),
     subtotal |-> ServiceUnitPrice(service) * ServiceQuantity(service),
     item_type |-> "SERVICE", service_id |-> service.service_id,
     variation_id |-> OrNull(service.variation_id)]

\* the detail rows written for a room (or none) and the request's service lines
DetailRows(room_id, event_services) ==
    (IF Truthy(room_id) THEN <<RoomDetail(room_id)>> ELSE <<>>)
      \o [i \in DOMAIN event_services |-> ServiceDetail(event_services[i])]

(* ------------------------- the record of a call ----------------------- *)
\* the rows of one event as a call found them (empty sequences when absent)
RowsOf(id) ==
    [event   |-> IF id \in DOMAIN events THEN <<events[id]>> ELSE <<>>,
     lines   |-> IF id \in DOMAIN eventServices THEN eventServices[id] ELSE <<>>,
     invoice |-> IF id \in DOMAIN invoices THEN <<invoices[id]>> ELSE <<>>,
     details |-> IF id \in DOMAIN invoiceDetails THEN invoiceDetails[id] ELSE <<>>]

NoRows == [event |-> <<>>, lines |-> <<>>, invoice |-> <<>>, details |-> <<>>]

\* updateEvent(eventId, updateData, user = null)
NoUser == [role |-> "none", account_id |-> NULL]

\* what surrounds a call: the user updateEvent is given and the hours between
\* now and the event's start, the options of deleteEvent, and the call of a
\* collaborator that threw ("none", "notifier", "storage")
NoCtx == [user |-> NoUser, hoursAhead |-> 0, forceDelete |-> FALSE,
          fault |-> "none"]

\* what `last` becomes: the call, its result, the rows of its event before it
\* (prev), the number of calls so far (seq) and the call before it (before)
Call(op, id, payload, result, calculatedEstimatedCost, prev) ==
    IF ~observe THEN last ELSE
    [op |-> op, id |-> id, payload |-> payload, isValid |-> result.isValid,
     error |-> result.error, data |-> result.data,
     calculatedEstimatedCost |-> calculatedEstimatedCost, prev |-> prev,
     ctx |-> NoCtx,
     seq |-> last.seq + 1,
     before |-> [op |-> last.op, id |-> last.id, payload |-> last.payload,
                 isValid |-> last.isValid, event |-> last.prev.event]]

\* the record of a call with what surrounded it
WithCtx(call, ctx) == IF ~observe THEN call ELSE [call EXCEPT !.ctx = ctx]

(* ----------------------------- createEvent ---------------------------- *)
\* !room || !room.is_active || room.status !== "AVAILABLE"
RoomUnusable(room_id) ==
    \/ room_id \notin DOMAIN Room
    \/ ~Room[room_id].is_active
    \/ Room[room_id].status # "AVAILABLE"

\* !eventType || !eventType.is_active
EventTypeUnusable(type_id) ==
    type_id \notin DOMAIN EventType \/ ~EventType[type_id].is_active

\* every check of createEvent that returns before the first write
CreateChecks(d) ==
    IF validateEventData(d) # ""
    THEN createValidationResult(FALSE, validateEventData(d), NoData)
    ELSE IF Truthy(d.account_id) /\ d.account_id \notin Account
    THEN createValidationResult(FALSE, "Account not found", NoData)
    ELSE IF Truthy(d.room_id) /\ RoomUnusable(d.room_id)
    THEN createValidationResult(FALSE, "Room not found, inactive, or unavailable",
                                NoData)
    ELSE IF /\ Truthy(d.room_id) /\ Truthy(d.start_time) /\ Truthy(d.duration_hours)
            /\ ~checkRoomAvailability(d.room_id, d.start_time, d.duration_hours,
                                      NULL).isAvailable
    THEN createValidationResult(FALSE,
            checkRoomAvailability(d.room_id, d.start_time, d.duration_hours,
                                  NULL).reason, NoData)
    ELSE IF Truthy(d.event_type_id) /\ EventTypeUnusable(d.event_type_id)
    THEN createValidationResult(FALSE, "Event type not found or inactive", NoData)
    ELSE ServiceLoop(d.event_services)

\* calculatedEstimatedCost of createEvent
CreateCost(d) ==
    (IF Truthy(d.estimated_cost) THEN d.estimated_cost ELSE 0)
      + (IF Truthy(d.room_id) THEN RoomCost(d.room_id, d.duration_hours) ELSE 0)
      + ServicesCost(d.event_services)

\* new Date(new Date(start_time).setHours(0, 0, 0, 0)): the midnight before
\* start_time, on a clock of hours
StartOfDay(start_time) == (start_time \div 24) * 24

\* event_date ? new Date(event_date) : <start of the day of start_time>
EventDate(d) ==
    IF Truthy(d.event_date) THEN d.event_date ELSE StartOfDay(d.start_time)

\* the status column of Event is an enumeration of the known statuses: a write
\* of any other value is refused by the storage layer
StatusStorable(status) == status \in EVENT_STATUSES

\* tx.event.create({data: ...})
NewEventRow(d) ==
    [start_time     |-> OrNull(d.start_time),
     end_time       |-> OrNull(d.end_time),
     event_date     |-> EventDate(d),
     estimated_cost |-> CreateCost(d),
     status         |-> IF d.status = NOSTATUS THEN "PENDING" ELSE d.status,
     account_id     |-> OrNull(d.account_id),
     room_id        |-> OrNull(d.room_id),
     event_type_id  |-> OrNull(d.event_type_id)]

\* if (calculatedEstimatedCost > 0): the invoice is created
InvoiceDue(calculatedEstimatedCost) == calculatedEstimatedCost > 0

\* the writes of a createEvent that passed its checks, as event `id`
CreateWrites(d, id) ==
    /\ events' = events @@ (id :> NewEventRow(d))
    /\ eventServices' = eventServices @@ (id :> EventServiceRows(d.event_services))
    /\ IF InvoiceDue(CreateCost(d))
       THEN /\ invoices' = invoices @@
                   (id :> [total_amount |-> CreateCost(d),
                           account_id |-> OrNull(d.account_id),
                           status |-> "PENDING"])
            /\ invoiceDetails' = invoiceDetails @@
                   (id :> DetailRows(d.room_id, d.event_services))
       ELSE UNCHANGED <<invoices, invoiceDetails>>
    /\ nextEventId' = id + 1
    /\ notifications' = IF Truthy(d.account_id) THEN notifications \cup {id}
                        ELSE notifications
    /\ UNCHANGED <<payments, reviews>>

\* mutant: a throw inside the transaction leaves the event row written before it
TransactionKeepsEvent ==
    /\ events' = events @@
           (nextEventId :> [start_time |-> 1, end_time |-> 2, event_date |-> 0,
                            estimated_cost |-> 0,
                            status |-> "PENDING", account_id |-> NULL,
                            room_id |-> NULL, event_type_id |-> NULL])
    /\ eventServices' = eventServices @@ (nextEventId :> <<>>)
    /\ nextEventId' = nextEventId + 1
    /\ UNCHANGED <<invoices, invoiceDetails, notifications, payments, reviews>>

\* mutant: an id that matches no event is answered as a success that did nothing
NotFoundNoOp == createValidationResult(TRUE, "", NoData)

\* if (!existingEvent) return createValidationResult(false, ["Event not found"])
NotFound == createValidationResult(FALSE, "Event not found", NoData)

\* a throw inside the callback of prisma.$transaction: none of its writes stays
TransactionRollback == UNCHANGED stores

\* createEvent(eventData); notifierThrows: createNotification rejects, which
\* throws inside the transaction callback and rolls the transaction back
createEvent(d, notifierThrows, maxEvents) ==
    /\ txs = {}
    /\ LET checks == CreateChecks(d)
       IN  IF ~checks.isValid
           THEN /\ last' = Call("createEvent", NULL, d, checks, NULL, NoRows)
                /\ UNCHANGED stores
           ELSE IF Truthy(d.account_id) /\ notifierThrows
           THEN /\ last' = WithCtx(Call("createEvent", NULL, d,
                                        handleError("notifier failed"),
                                        NULL, NoRows),
                                   [NoCtx EXCEPT !.fault = "notifier"])
                /\ TransactionRollback
           ELSE IF ~StatusStorable(NewEventRow(d).status)
           THEN /\ last' = WithCtx(Call("createEvent", NULL, d,
                                        handleError("storage failure"),
                                        NULL, NoRows),
                                   [NoCtx EXCEPT !.fault = "storage"])
                /\ TransactionRollback
           ELSE /\ nextEventId <= maxEvents
                /\ CreateCost(d) <= MaxCost
                /\ CreateWrites(d, nextEventId)
                /\ last' = Call("createEvent", nextEventId, d, checks,
                                CreateCost(d), NoRows)
    /\ UNCHANGED <<observe, txs>>

\* createEvent whose transaction fails to commit after its callback ran to the
\* end: createNotification was awaited inside the callback and is not given
\* `tx`, so it has been sent when the writes of the transaction are undone
createEventCommitFails(d) ==
    /\ txs = {}
    /\ CreateChecks(d).isValid
    /\ StatusStorable(NewEventRow(d).status)
    /\ last' = WithCtx(Call("createEvent", NULL, d, handleError("commit failed"),
                            NULL, NoRows),
                       [NoCtx EXCEPT !.fault = "commit"])
    /\ notifications' = IF Truthy(d.account_id)
                        THEN notifications \cup {nextEventId} ELSE notifications
    /\ UNCHANGED <<events, eventServices, invoices, invoiceDetails, nextEventId,
                   payments, reviews>>
    /\ UNCHANGED <<observe, txs>>

(* ----------------------------- updateEvent ---------------------------- *)
\* room_id && room_id !== existingEvent.room_id
RoomChanged(existingEvent, d) ==
    Truthy(d.room_id) /\ d.room_id # existingEvent.room_id

\* (updateData.start_time || updateData.duration_hours) && existingEvent.room_id
RoomKeptAndTimeTouched(existingEvent, d) ==
    /\ ~RoomChanged(existingEvent, d)
    /\ Truthy(d.start_time) \/ Truthy(d.duration_hours)
    /\ Truthy(existingEvent.room_id)

\* mutant: an event exactly 24 hours ahead is too close
LeadTimeTooShortAt24(hoursAhead) == hoursAhead <= 24

\* (eventStart - now) / (1000 * 60 * 60) < 24
LeadTimeTooShort(hoursAhead) == hoursAhead < 24

\* mutant: a line is not busy with the lines of the event being updated
UpdateServiceLoopExcludingOwn(id, event_services) ==
    LET bad == {i \in DOMAIN event_services :
                   LET check == ServiceLineCheck(event_services[i])
                   IN  /\ ~check.isValid
                       /\ ~(check.data # NoData /\ \A k \in check.data : k[1] = id)}
    IN  IF bad = {} THEN createValidationResult(TRUE, "", NoData)
        ELSE ServiceLineCheck(event_services[Min(bad)])

\* for (const service of event_services) { ... checkVariationAvailability(
\* service.variation_id, service.scheduled_time, service.duration_hours, tx) }:
\* the check is not told which event is being updated
UpdateServiceLoop(id, event_services) == ServiceLoop(event_services)

\* the checks updateEvent makes inside its transaction, with the existingEvent
\* that was read before the transaction began
UpdateTxChecks(id, d, existingEvent) ==
    IF Truthy(d.account_id) /\ d.account_id \notin Account
    THEN createValidationResult(FALSE, "Account not found", NoData)
    ELSE IF RoomChanged(existingEvent, d) /\ RoomUnusable(d.room_id)
    THEN createValidationResult(FALSE, "Room not found, inactive, or unavailable",
                                NoData)
    ELSE IF /\ RoomChanged(existingEvent, d)
            /\ Truthy(d.start_time) /\ Truthy(d.duration_hours)
            /\ ~checkRoomAvailability(d.room_id, d.start_time, d.duration_hours,
                                      id).isAvailable
    THEN createValidationResult(FALSE,
            checkRoomAvailability(d.room_id, d.start_time, d.duration_hours,
                                  id).reason, NoData)
    ELSE IF /\ RoomKeptAndTimeTouched(existingEvent, d)
            /\ RoomUnusable(existingEvent.room_id)
    THEN createValidationResult(FALSE, "Current room is not available", NoData)
    ELSE IF /\ RoomKeptAndTimeTouched(existingEvent, d)
            /\ Truthy(d.start_time) /\ Truthy(d.duration_hours)
            /\ ~checkRoomAvailability(existingEvent.room_id, d.start_time,
                                      d.duration_hours, id).isAvailable
    THEN createValidationResult(FALSE,
            checkRoomAvailability(existingEvent.room_id, d.start_time,
                                  d.duration_hours, id).reason, NoData)
    ELSE IF Truthy(d.event_type_id) /\ EventTypeUnusable(d.event_type_id)
    THEN createValidationResult(FALSE, "Event type not found or inactive", NoData)
    ELSE UpdateServiceLoop(id, d.event_services)

\* the checks updateEvent makes before its transaction, on the existingEvent it
\* has just read; hoursAhead is (eventStart - now) / (1000 * 60 * 60)
UpdatePreChecks(existingEvent, d, user, hoursAhead) ==
    IF user.role = "CUSTOMER" /\ existingEvent.account_id # user.account_id
    THEN createValidationResult(FALSE, "You can only update your own events.", NoData)
    ELSE IF user.role = "CUSTOMER" /\ LeadTimeTooShort(hoursAhead)
    THEN createValidationResult(FALSE,
            "You can only update events at least 24 hours in advance.", NoData)
    ELSE IF validateEventData(d) # ""
    THEN createValidationResult(FALSE, validateEventData(d), NoData)
    ELSE createValidationResult(TRUE, "", NoData)

\* every check of updateEvent that returns before the first write
UpdateChecks(id, d, user, hoursAhead) ==
    IF id \notin DOMAIN events
    THEN NotFound
    ELSE IF ~UpdatePreChecks(events[id], d, user, hoursAhead).isValid
    THEN UpdatePreChecks(events[id], d, user, hoursAhead)
    ELSE UpdateTxChecks(id, d, events[id])

\* estimated_cost || existingEvent.estimated_cost || 0
UpdateBaseCost(existingEvent, d) ==
    IF Truthy(d.estimated_cost) THEN d.estimated_cost
    ELSE IF Truthy(existingEvent.estimated_cost) THEN existingEvent.estimated_cost
    ELSE 0

\* calculatedEstimatedCost of updateEvent
UpdateCost(existingEvent, d) ==
    (IF RoomChanged(existingEvent, d) THEN RoomCost(d.room_id, d.duration_hours)
     ELSE UpdateBaseCost(existingEvent, d))
      + ServicesCost(d.event_services)

\* field !== undefined ? (field ? Number(field) : null) : undefined
Patched(old, new) == IF new # UNDEF THEN OrNull(new) ELSE old

\* tx.event.update({where: {event_id}, data: ...})
UpdatedEventRow(existingEvent, d) ==
    [start_time     |-> Patched(existingEvent.start_time, d.start_time),
     end_time       |-> Patched(existingEvent.end_time, d.end_time),
     event_date     |-> EventDate(d),
     estimated_cost |-> UpdateCost(existingEvent, d),
     status         |-> IF d.status = NOSTATUS THEN existingEvent.status
                        ELSE d.status,
     account_id     |-> Patched(existingEvent.account_id, d.account_id),
     room_id        |-> Patched(existingEvent.room_id, d.room_id),
     event_type_id  |-> Patched(existingEvent.event_type_id, d.event_type_id)]

\* mutant: the invoice is rebuilt on every update
CostChangedAlways(calculatedEstimatedCost, existingEvent) == TRUE

\* calculatedEstimatedCost !== existingEvent.estimated_cost
CostChanged(calculatedEstimatedCost, existingEvent) ==
    calculatedEstimatedCost # existingEvent.estimated_cost

\* room_id || existingEvent.room_id
InvoiceRoom(existingEvent, d) ==
    IF Truthy(d.room_id) THEN d.room_id ELSE existingEvent.room_id

\* mutant: an empty list replaces the stored lines too
ReplacesLinesAlways(event_services) == TRUE

\* event_services.length > 0
ReplacesLines(event_services) == Len(event_services) > 0

\* the writes of an updateEvent that passed its checks: tx.event.update patches
\* the stored row, and the cost and the invoice are decided from the
\* existingEvent that was read before the transaction began
UpdateWritesFrom(id, d, existingEvent) ==
    LET calculatedEstimatedCost == UpdateCost(existingEvent, d)
    IN  /\ events' = [events EXCEPT ![id] =
                         [UpdatedEventRow(events[id], d) EXCEPT
                             !.estimated_cost = calculatedEstimatedCost]]
        /\ eventServices' =
               IF ReplacesLines(d.event_services)
               THEN [eventServices EXCEPT ![id] = EventServiceRows(d.event_services)]
               ELSE eventServices
        /\ IF CostChanged(calculatedEstimatedCost, existingEvent)
              /\ id \in DOMAIN invoices
           THEN /\ invoices' = [invoices EXCEPT
                                  ![id].total_amount = calculatedEstimatedCost]
                /\ invoiceDetails' = [invoiceDetails EXCEPT ![id] =
                        DetailRows(InvoiceRoom(existingEvent, d), d.event_services)]
           ELSE UNCHANGED <<invoices, invoiceDetails>>
        /\ UNCHANGED <<nextEventId, notifications, payments, reviews>>

\* the writes of an updateEvent when nothing ran between its read of
\* existingEvent and its transaction
UpdateWrites(id, d) == UpdateWritesFrom(id, d, events[id])

\* updateEvent(eventId, updateData, user)
updateEvent(id, d, user, hoursAhead) ==
    /\ txs = {}
    /\ LET checks == UpdateChecks(id, d, user, hoursAhead)
       IN  IF id \notin DOMAIN events
           THEN /\ last' = WithCtx(Call("updateEvent", id, d, NotFound, NULL,
                                        RowsOf(id)),
                                   [NoCtx EXCEPT !.user = user,
                                                 !.hoursAhead = hoursAhead])
                /\ UNCHANGED stores
           ELSE IF ~checks.isValid
           THEN /\ last' = WithCtx(Call("updateEvent", id, d, checks, NULL,
                                        RowsOf(id)),
                                   [NoCtx EXCEPT !.user = user,
                                                 !.hoursAhead = hoursAhead])
                /\ UNCHANGED stores
           ELSE IF ~StatusStorable(UpdatedEventRow(events[id], d).status)
           THEN /\ last' = WithCtx(Call("updateEvent", id, d,
                                        handleError("storage failure"), NULL,
                                        RowsOf(id)),
                                   [NoCtx EXCEPT !.user = user,
                                                 !.hoursAhead = hoursAhead,
                                                 !.fault = "storage"])
                /\ TransactionRollback
           ELSE /\ UpdateCost(events[id], d) <= MaxCost
                /\ UpdateWrites(id, d)
                /\ last' = WithCtx(Call("updateEvent", id, d, checks,
                                        UpdateCost(events[id], d), RowsOf(id)),
                                   [NoCtx EXCEPT !.user = user,
                                                 !.hoursAhead = hoursAhead])
    /\ UNCHANGED <<observe, txs>>

(* ------------------------------ payloads ------------------------------ *)
Payload(start_time, end_time, duration_hours, room_id, status, event_services) ==
    [event_name |-> "Gala", start_time |-> start_time, end_time |-> end_time,
     event_date |-> UNDEF,
     estimated_cost |-> UNDEF, account_id |-> UNDEF, room_id |-> room_id,
     event_type_id |-> UNDEF, status |-> status,
     event_services |-> event_services, duration_hours |-> duration_hours]

ServiceLine(variation_id, quantity, custom_price, scheduled_time, duration_hours) ==
    [service_id |-> 1, variation_id |-> variation_id, quantity |-> quantity,
     custom_price |-> custom_price, notes |-> "", status |-> NOSTATUS,
     scheduled_time |-> scheduled_time, duration_hours |-> duration_hours]

NoPayload == Payload(UNDEF, UNDEF, UNDEF, UNDEF, NOSTATUS, <<>>)

\* the [start, end) windows of the model's clock
Windows == {w \in (1..MaxTime) \X (1..MaxTime) : w[1] < w[2]}

\* requests about a room and a window: with or without duration_hours (when
\* given, duration_hours is end_time - start_time), with or without a status
RoomPayloads ==
    {Payload(w[1], w[2], dur, room, status, <<>>) :
        w \in Windows, dur \in {UNDEF} \cup (1..MaxTime), room \in {UNDEF, 1, 2, 3},
        status \in {NOSTATUS, "CONFIRMED"}}

RoomRequests == {d \in RoomPayloads :
                    d.duration_hours \in {UNDEF, d.end_time - d.start_time}}

(* -------------------------- a call that throws ----------------------- *)
\* a prisma call of the operation throws: the transaction, if one is open, is
\* rolled back, the catch block returns handleError(context, error)
StorageThrows(op, id, payload, ctx) ==
    /\ txs = {}
    /\ last' = WithCtx(Call(op, id, payload, handleError("storage failure"), NULL,
                            RowsOf(id)),
                       [ctx EXCEPT !.fault = "storage"])
    /\ TransactionRollback
    /\ UNCHANGED <<observe, txs>>

(* -------------------------- toggleEventStatus ------------------------- *)
\* mutant: every status but CONFIRMED becomes CONFIRMED
NewStatusFromConfirmed(status) ==
    IF status = "CONFIRMED" THEN "PENDING" ELSE "CONFIRMED"

\* event.status === "PENDING" ? "CONFIRMED" : "PENDING"
NewStatus(status) == IF status = "PENDING" THEN "CONFIRMED" ELSE "PENDING"

\* toggleEventStatus(eventId)
toggleEventStatus(id) ==
    /\ txs = {}
    /\ IF id \notin DOMAIN events
       THEN /\ last' = Call("toggleEventStatus", id, NoPayload, NotFound, NULL,
                            RowsOf(id))
            /\ UNCHANGED stores
       ELSE /\ events' = [events EXCEPT ![id].status = NewStatus(events[id].status)]
            /\ UNCHANGED <<eventServices, invoices, invoiceDetails, nextEventId,
                           notifications, payments, reviews>>
            /\ last' = Call("toggleEventStatus", id, NoPayload,
                            createValidationResult(TRUE, "", NoData), NULL,
                            RowsOf(id))
    /\ UNCHANGED <<observe, txs>>

(* ----------------------------- deleteEvent ---------------------------- *)
\* the Payment rows and the Reviews rows of an event
PaymentsOf(id) == IF id \in DOMAIN payments THEN payments[id] ELSE 0
ReviewsOf(id) == IF id \in DOMAIN reviews THEN reviews[id] ELSE 0

\* a store without the rows of one event
Without(store, id) == [e \in DOMAIN store \ {id} |-> store[e]]

\* mutant: the reviews do not count as dependents
hasDependenciesButReviews(id) ==
    \/ Len(eventServices[id]) > 0
    \/ id \in DOMAIN invoices
    \/ PaymentsOf(id) > 0

\* event_services.length > 0 || invoice || payments.length > 0
\*   || reviews.length > 0
hasDependencies(id) ==
    \/ Len(eventServices[id]) > 0
    \/ id \in DOMAIN invoices
    \/ PaymentsOf(id) > 0
    \/ ReviewsOf(id) > 0

\* the data of the result that refuses the deletion
DependencyCounts(id) ==
    [eventServicesCount |-> Len(eventServices[id]),
     paymentsCount |-> PaymentsOf(id),
     reviewsCount |-> ReviewsOf(id),
     hasInvoice |-> id \in DOMAIN invoices]

\* the data of the result of a deletion
DeletedCounts(id, forceDelete) ==
    [event_id |-> id,
     deletedEventServices |-> IF forceDelete THEN Len(eventServices[id]) ELSE 0,
     deletedPayments |-> IF forceDelete THEN PaymentsOf(id) ELSE 0,
     deletedReviews |-> IF forceDelete THEN ReviewsOf(id) ELSE 0,
     deletedInvoice |-> IF forceDelete /\ id \in DOMAIN invoices THEN 1 ELSE 0]

\* mutant: the details of the invoice are left behind
KeepInvoiceDetails(id) == invoiceDetails

\* tx.invoiceDetail.deleteMany({where: {invoice_id}})
DeleteInvoiceDetails(id) == Without(invoiceDetails, id)

\* the transaction of deleteEvent: the dependents if forceDelete, then the event
DeleteWrites(id, forceDelete) ==
    /\ events' = Without(events, id)
    /\ IF forceDelete
       THEN /\ eventServices' = Without(eventServices, id)
            /\ payments' = Without(payments, id)
            /\ reviews' = Without(reviews, id)
            /\ invoiceDetails' = IF id \in DOMAIN invoices
                                 THEN DeleteInvoiceDetails(id) ELSE invoiceDetails
            /\ invoices' = Without(invoices, id)
       ELSE /\ eventServices' = Without(eventServices, id)
            /\ UNCHANGED <<payments, reviews, invoices, invoiceDetails>>
    /\ UNCHANGED <<nextEventId, notifications>>

\* deleteEvent(eventId, {forceDelete})
deleteEvent(id, forceDelete) ==
    /\ txs = {}
    /\ LET ctx == [NoCtx EXCEPT !.forceDelete = forceDelete]
       IN  IF id \notin DOMAIN events
           THEN /\ last' = WithCtx(Call("deleteEvent", id, NoPayload, NotFound,
                                        NULL, RowsOf(id)), ctx)
                /\ UNCHANGED stores
           ELSE IF hasDependencies(id) /\ ~forceDelete
           THEN /\ last' = WithCtx(Call("deleteEvent", id, NoPayload,
                                        createValidationResult(FALSE,
                                            "Cannot delete event",
                                            DependencyCounts(id)),
                                        NULL, RowsOf(id)), ctx)
                /\ UNCHANGED stores
           ELSE /\ DeleteWrites(id, forceDelete)
                /\ last' = WithCtx(Call("deleteEvent", id, NoPayload,
                                        createValidationResult(TRUE, "",
                                            DeletedCounts(id, forceDelete)),
                                        NULL, RowsOf(id)), ctx)
    /\ UNCHANGED <<observe, txs>>

(* ------------------- payments and reviews of an event ----------------- *)
\* a Payment row is recorded for a stored event
RecordPayment(id) ==
    /\ txs = {}
    /\ id \in DOMAIN events
    /\ PaymentsOf(id) < MaxDependents
    /\ payments' = [e \in DOMAIN payments \cup {id} |->
                       IF e = id THEN PaymentsOf(id) + 1 ELSE payments[e]]
    /\ UNCHANGED <<events, eventServices, invoices, invoiceDetails, nextEventId,
                   notifications, reviews, last, observe, txs>>

\* a Reviews row is recorded for a stored event
RecordReview(id) ==
    /\ txs = {}
    /\ id \in DOMAIN events
    /\ ReviewsOf(id) < MaxDependents
    /\ reviews' = [e \in DOMAIN reviews \cup {id} |->
                      IF e = id THEN ReviewsOf(id) + 1 ELSE reviews[e]]
    /\ UNCHANGED <<events, eventServices, invoices, invoiceDetails, nextEventId,
                   notifications, payments, last, observe, txs>>

(* ------------------------ the controllers' status --------------------- *)
\* the status code the controller of an operation sends for the result of the
\* service: the service catches every exception, so the controller's own catch
\* block (500) is passed by no result
ResponseStatus(op, isValid) ==
    CASE op = "createEvent" -> IF ~isValid THEN 400 ELSE 201
      [] op = "updateEvent" -> IF ~isValid THEN 400 ELSE 200
      [] op = "deleteEvent" -> IF ~isValid THEN 400 ELSE 200
      [] op = "toggleEventStatus" -> IF ~isValid THEN 404 ELSE 200
      [] OTHER -> 200

(* ------------------------------ initial state ------------------------- *)
NoCall ==
    [op |-> "init", id |-> NULL, payload |-> NoPayload, isValid |-> TRUE,
     error |-> "", data |-> NoData, calculatedEstimatedCost |-> NULL,
     prev |-> NoRows, ctx |-> NoCtx, seq |-> 0,
     before |-> [op |-> "init", id |-> NULL, payload |-> NoPayload,
                 isValid |-> TRUE, event |-> <<>>]]

EmptyStores ==
    /\ events = <<>>
    /\ eventServices = <<>>
    /\ invoices = <<>>
    /\ invoiceDetails = <<>>
    /\ nextEventId = 1
    /\ notifications = {}
    /\ payments = <<>>
    /\ reviews = <<>>
    /\ last = NoCall
    /\ txs = {}

\* empty stores, every call recorded in `last`
Init == EmptyStores /\ observe = TRUE

\* empty stores, calls not recorded: for the properties of the stores alone
InitStores == EmptyStores /\ observe = FALSE

(* ------------- room bookings: createEvent and updateEvent ------------- *)
CreateRoomEvent == \E d \in RoomRequests : createEvent(d, FALSE, MaxEvents)

UpdateRoomEvent ==
    \E id \in 1..MaxEvents, d \in RoomRequests : updateEvent(id, d, NoUser, 0)

NextRoom == CreateRoomEvent \/ UpdateRoomEvent

SpecRoom == InitStores /\ [][NextRoom]_vars

\* C1: no two CONFIRMED events of the same room have overlapping
\* [start_time, end_time) windows (windows that share an endpoint may touch)
NoConfirmedRoomOverlap ==
    \A a \in DOMAIN events, b \in DOMAIN events :
        (/\ a # b
         /\ events[a].status = "CONFIRMED" /\ events[b].status = "CONFIRMED"
         /\ events[a].room_id # NULL /\ events[a].room_id = events[b].room_id)
        => ~Overlaps(events[a].start_time, events[a].end_time,
                     events[b].start_time, events[b].end_time)

(* ------------- service lines: createEvent and updateEvent ------------- *)
\* lines of the free variation 3 scheduled on [1, 2), [2, 3) and [1, 3)
ScheduledLines ==
    {ServiceLine(3, UNDEF, UNDEF, 1, 1), ServiceLine(3, UNDEF, UNDEF, 2, 1),
     ServiceLine(3, UNDEF, UNDEF, 1, 2)}

\* the scheduled lines, an unscheduled line, a line scheduled without a duration,
\* a line that is not CONFIRMED, a line of the inactive variation 2
LineInputs ==
    ScheduledLines
      \cup {ServiceLine(3, UNDEF, UNDEF, UNDEF, UNDEF),
            ServiceLine(3, UNDEF, UNDEF, 2, UNDEF),
            [ServiceLine(3, UNDEF, UNDEF, 1, 2) EXCEPT !.status = "PENDING"],
            ServiceLine(2, UNDEF, UNDEF, 1, 1)}

\* requests on the window [1, 2) that carry no line, one line, or two scheduled
\* lines
LineRequests ==
    {Payload(1, 2, UNDEF, UNDEF, NOSTATUS, svcs) :
        svcs \in {<<>>} \cup {<<a>> : a \in LineInputs}
                       \cup {<<a, b>> : a \in ScheduledLines, b \in ScheduledLines}}

CreateLineEvent == \E d \in LineRequests : createEvent(d, FALSE, MaxEvents)

UpdateLineEvent ==
    \E id \in 1..MaxEvents, d \in LineRequests : updateEvent(id, d, NoUser, 0)

NextLines == CreateLineEvent \/ UpdateLineEvent

SpecLines == InitStores /\ [][NextLines]_vars

\* every stored line, named <<event_id, position>>
StoredLines ==
    UNION {{<<e, i>> : i \in DOMAIN eventServices[e]} : e \in DOMAIN eventServices}

\* C2: no two CONFIRMED stored lines of the same variation have overlapping
\* [scheduled_time, scheduled_time + duration_hours) windows
NoConfirmedVariationOverlap ==
    \A k1 \in StoredLines, k2 \in StoredLines :
        (/\ k1 # k2
         /\ LineOf(k1).status = "CONFIRMED" /\ LineOf(k2).status = "CONFIRMED"
         /\ LineOf(k1).variation_id # NULL
         /\ LineOf(k1).variation_id = LineOf(k2).variation_id
         /\ LineOf(k1).scheduled_time # NULL /\ LineOf(k1).duration_hours # NULL
         /\ LineOf(k2).scheduled_time # NULL /\ LineOf(k2).duration_hours # NULL)
        => \/ LineOf(k1).scheduled_time + LineOf(k1).duration_hours
                 <= LineOf(k2).scheduled_time
           \/ LineOf(k2).scheduled_time + LineOf(k2).duration_hours
                 <= LineOf(k1).scheduled_time

\* the stored CONFIRMED scheduled lines of a variation that strictly overlap
\* [proposedStart, proposedEnd), each with its end at start + stored duration
StrictlyOverlapping(variation_id, proposedStart, proposedEnd) ==
    {k \in StoredLines :
        /\ LineOf(k).variation_id = variation_id
        /\ LineOf(k).status = "CONFIRMED"
        /\ LineOf(k).scheduled_time # NULL
        /\ proposedStart <
             LineOf(k).scheduled_time
               + (IF LineOf(k).duration_hours = NULL THEN 0
                  ELSE LineOf(k).duration_hours)
        /\ proposedEnd > LineOf(k).scheduled_time}

\* C4: for an active variation, checkVariationAvailability is negative exactly
\* when a stored CONFIRMED line of it strictly overlaps the proposed window, and
\* then reports exactly the overlapping lines; touching windows do not conflict
VariationCheckIsStrictOverlap ==
    \A v \in {x \in DOMAIN Variation : Variation[x].is_active},
       s \in 1..MaxTime, dur \in 1..MaxTime :
        LET result == checkVariationAvailability(v, s, dur)
            expected == StrictlyOverlapping(v, s, s + dur)
        IN  /\ result.isValid <=> (expected = {})
            /\ ~result.isValid => result.data = expected

\* C4 witness: a CONFIRMED line of variation 3 is stored on [1, 2); the window
\* [2, 3) that touches it is available, the window [1, 3) conflicts with it
VariationCheckWitness ==
    \E k \in StoredLines :
        /\ LineOf(k).variation_id = 3 /\ LineOf(k).status = "CONFIRMED"
        /\ LineOf(k).scheduled_time = 1 /\ LineOf(k).duration_hours = 1
        /\ StrictlyOverlapping(3, 2, 3) = {}
        /\ checkVariationAvailability(3, 2, 1).isValid
        /\ ~checkVariationAvailability(3, 1, 2).isValid
        /\ k \in checkVariationAvailability(3, 1, 2).data

(* ------------------- concurrent createEvent requests ------------------ *)
\* prisma.$transaction(async (tx) => {...}) is given no isolation level, so the
\* transaction runs at the database's default one: the reads of a transaction
\* see what was committed when they ran, and its inserts conflict with no other
\* transaction's. A transaction is modelled in two steps: its reads and checks
\* (BeginCreate), then its writes and commit (CommitCreate).

\* requests whose availability check runs: a CONFIRMED event on room 1 with a
\* duration, or one scheduled line of variation 3
ConcRequests ==
    {Payload(w[1], w[2], w[2] - w[1], 1, "CONFIRMED", <<>>) : w \in Windows}
      \cup {Payload(1, 2, UNDEF, UNDEF, NOSTATUS,
                    <<ServiceLine(3, UNDEF, UNDEF, w[1], w[2] - w[1])>>) :
               w \in Windows}

\* createEvent up to the last check before tx.event.create
BeginCreate(tid, d) ==
    /\ Cardinality(txs) < MaxTxs
    /\ \A t \in txs : t.tid # tid
    /\ LET checks == CreateChecks(d)
       IN  IF ~checks.isValid
           THEN /\ last' = Call("createEvent", NULL, d, checks, NULL, NoRows)
                /\ UNCHANGED txs
           ELSE /\ txs' = txs \cup {[tid |-> tid, d |-> d]}
                /\ UNCHANGED last
    /\ UNCHANGED <<stores, observe>>

\* createEvent from tx.event.create to the commit of the transaction
CommitCreate(t) ==
    /\ t \in txs
    /\ nextEventId <= MaxEvents
    /\ CreateWrites(t.d, nextEventId)
    /\ last' = Call("createEvent", nextEventId, t.d,
                    createValidationResult(TRUE, "", NoData), CreateCost(t.d),
                    NoRows)
    /\ txs' = txs \ {t}
    /\ UNCHANGED observe

BeginConcurrentCreate == \E tid \in 1..MaxTxs, d \in ConcRequests : BeginCreate(tid, d)

CommitConcurrentCreate == \E t \in txs : CommitCreate(t)

NextConc == BeginConcurrentCreate \/ CommitConcurrentCreate

SpecConc == InitStores /\ [][NextConc]_vars

\* the same requests, one whole createEvent at a time
CreateSerially == \E d \in ConcRequests : createEvent(d, FALSE, MaxEvents)

SpecSerial == InitStores /\ [][CreateSerially]_vars

\* C3: of the createEvent requests for one room, or one variation, whose windows
\* overlap, at most one commits: no two committed requests overlap
AtMostOneOverlappingCreateCommits ==
    /\ \A a \in DOMAIN events, b \in DOMAIN events :
          (a # b /\ events[a].room_id # NULL
             /\ events[a].room_id = events[b].room_id)
          => \/ events[a].end_time <= events[b].start_time
             \/ events[b].end_time <= events[a].start_time
    /\ \A k1 \in StoredLines, k2 \in StoredLines :
          (k1 # k2 /\ LineOf(k1).variation_id = LineOf(k2).variation_id)
          => \/ LineOf(k1).scheduled_time + LineOf(k1).duration_hours
                   <= LineOf(k2).scheduled_time
             \/ LineOf(k2).scheduled_time + LineOf(k2).duration_hours
                   <= LineOf(k1).scheduled_time

(* --------------- the cost and the invoice of one event ---------------- *)
\* unscheduled lines: variation 1 at its base price; variation 1 with
\* custom_price 50 and quantity 2; variation 1 with custom_price 0; a line with
\* no variation and no price
CostLine1 == ServiceLine(1, UNDEF, UNDEF, UNDEF, UNDEF)
CostLine2 == ServiceLine(1, 2, 50, UNDEF, UNDEF)
CostLine3 == ServiceLine(1, UNDEF, 0, UNDEF, UNDEF)
CostLine4 == ServiceLine(UNDEF, UNDEF, UNDEF, UNDEF, UNDEF)

\* createEvent requests on the window [1, 3): with or without an estimated_cost,
\* a room, duration_hours = 2 and one service line
CostCreateRequests ==
    {[Payload(1, 3, dur, room, NOSTATUS, svcs) EXCEPT !.estimated_cost = cost] :
        cost \in {UNDEF, 10}, room \in {UNDEF, 1, 2}, dur \in {UNDEF, 2},
        svcs \in {<<>>, <<CostLine1>>, <<CostLine2>>, <<CostLine3>>}}

\* updateEvent requests on the same window: the room absent, given or null, with
\* or without duration_hours, and no line, a priced line or an unpriced one
CostUpdateRequests ==
    {Payload(1, 3, dur, room, NOSTATUS, svcs) :
        room \in {UNDEF, NULL, 1, 2}, dur \in {UNDEF, 2},
        svcs \in {<<>>, <<CostLine1>>, <<CostLine4>>}}

CreateCostEvent ==
    /\ last.seq < MaxCalls
    /\ \E d \in CostCreateRequests : createEvent(d, FALSE, 1)

UpdateCostEvent ==
    /\ last.seq < MaxCalls
    /\ \E d \in CostUpdateRequests : updateEvent(1, d, NoUser, 0)

NextCost == CreateCostEvent \/ UpdateCostEvent

SpecCost == Init /\ [][NextCost]_vars

\* a payload field that is given (0 included)
Present(v) == v # UNDEF /\ v # NULL

\* (custom_price if present, else the variation's base_price) * quantity
ClaimedLineCost(service) ==
    (IF Present(service.custom_price) THEN service.custom_price
     ELSE IF Present(service.variation_id)
     THEN Variation[service.variation_id].base_price ELSE 0)
      * (IF Present(service.quantity) THEN service.quantity ELSE 1)

RECURSIVE ClaimedLinesCost(_)
ClaimedLinesCost(event_services) ==
    IF event_services = <<>> THEN 0
    ELSE ClaimedLineCost(Head(event_services))
           + ClaimedLinesCost(Tail(event_services))

ClaimedCreateCost(d) ==
    (IF Present(d.estimated_cost) THEN d.estimated_cost ELSE 0)
      + (IF Present(d.room_id) THEN Room[d.room_id].base_price ELSE 0)
      + (IF Present(d.room_id) /\ Present(d.duration_hours)
         THEN Room[d.room_id].hourly_rate * d.duration_hours ELSE 0)
      + ClaimedLinesCost(d.event_services)

LastSucceeded(op) == last.op = op /\ last.isValid

\* C5: a successful createEvent stores estimated_cost = the supplied
\* estimated_cost + the room's base_price + hourly_rate * duration_hours + the
\* sum over the lines of (custom_price if present, 0 included, else the
\* variation's base_price) * quantity
CreateStoresClaimedCost ==
    LastSucceeded("createEvent")
    => events[last.id].estimated_cost = ClaimedCreateCost(last.payload)

RECURSIVE SumSubtotals(_)
SumSubtotals(details) ==
    IF details = <<>> THEN 0
    ELSE Head(details).subtotal + SumSubtotals(Tail(details))

\* the last call wrote the invoice of its event or the details of that invoice
LastWroteInvoice ==
    /\ LastSucceeded("createEvent") \/ LastSucceeded("updateEvent")
    /\ last.id \in DOMAIN invoices
    /\ \/ RowsOf(last.id).invoice # last.prev.invoice
       \/ RowsOf(last.id).details # last.prev.details

\* C6: after a createEvent or updateEvent that wrote an invoice or its details,
\* the invoice's total_amount is the sum of the subtotals of its details
InvoiceTotalIsSumOfDetails ==
    LastWroteInvoice
    => invoices[last.id].total_amount = SumSubtotals(invoiceDetails[last.id])

\* C7: an event has an invoice exactly when its estimated_cost is not zero
InvoiceIffNonZeroCost ==
    \A id \in DOMAIN events :
        (events[id].estimated_cost # 0) <=> (id \in DOMAIN invoices)

\* C8: the same updateEvent payload applied twice in a row to an event leaves
\* estimated_cost after the second application as it was after the first
SameUpdateTwiceSameCost ==
    (/\ LastSucceeded("updateEvent")
     /\ last.before.op = "updateEvent" /\ last.before.isValid
     /\ last.before.id = last.id /\ last.before.payload = last.payload)
    => events[last.id].estimated_cost = last.prev.event[1].estimated_cost

\* the last call was an updateEvent that succeeded on an event with an invoice
LastUpdatedInvoiced == LastSucceeded("updateEvent") /\ last.prev.invoice # <<>>

\* the details an invoice must hold for the event as it is stored: one ROOM
\* detail when the event has a room, then one SERVICE detail for each of its lines
DetailsMatchEvent(id) ==
    LET details == invoiceDetails[id]
        rooms == IF events[id].room_id # NULL THEN 1 ELSE 0
    IN  /\ Len(details) = rooms + Len(eventServices[id])
        /\ rooms = 1 => /\ details[1].item_type = "ROOM"
                        /\ details[1].item_name = Room[events[id].room_id].room_name
        /\ \A i \in DOMAIN eventServices[id] :
              /\ details[rooms + i].item_type = "SERVICE"
              /\ details[rooms + i].service_id = eventServices[id][i].service_id
              /\ details[rooms + i].variation_id = eventServices[id][i].variation_id
              /\ details[rooms + i].quantity = eventServices[id][i].quantity

\* C9: an updateEvent that computes a cost other than the stored one, on an event
\* with an invoice, leaves the invoice with total_amount = the new estimated_cost
\* and with one ROOM detail for the event's room and one SERVICE detail for each
\* service line the event has after the update
UpdateRegeneratesInvoice ==
    (/\ LastUpdatedInvoiced
     /\ last.calculatedEstimatedCost # last.prev.event[1].estimated_cost)
    => /\ invoices[last.id].total_amount = events[last.id].estimated_cost
       /\ DetailsMatchEvent(last.id)

\* C10: an updateEvent that computes the stored cost again leaves the invoice row
\* and its detail rows as they were
UpdateEqualCostLeavesInvoice ==
    (/\ LastSucceeded("updateEvent")
     /\ last.calculatedEstimatedCost = last.prev.event[1].estimated_cost)
    => /\ RowsOf(last.id).invoice = last.prev.invoice
       /\ RowsOf(last.id).details = last.prev.details

\* C10 witness: such an updateEvent, on an event with an invoice and details,
\* that replaced the event's service lines
UpdateEqualCostWitness ==
    /\ LastUpdatedInvoiced
    /\ last.calculatedEstimatedCost = last.prev.event[1].estimated_cost
    /\ last.prev.details # <<>>
    /\ last.prev.lines # <<>>
    /\ eventServices[last.id] # last.prev.lines

(* ------------- writes and their failures: create and update ----------- *)
\* an unscheduled line of the inactive variation 2
InactiveLine == ServiceLine(2, UNDEF, UNDEF, UNDEF, UNDEF)

\* a line of variation 3 scheduled on [1, 2)
BusyLine == ServiceLine(3, UNDEF, UNDEF, 1, 1)

\* createEvent requests on the window [1, 2): for account 1 with a priced
\* line, with room 1 and a scheduled line, CONFIRMED on room 1 for one hour,
\* with no line, with a line of the inactive variation, with the closed room 3;
\* and a request whose window ends before it starts
WriteCreateRequests ==
    {[Payload(1, 2, UNDEF, UNDEF, NOSTATUS, <<CostLine1>>) EXCEPT !.account_id = 1],
     Payload(1, 2, UNDEF, 1, NOSTATUS, <<BusyLine>>),
     Payload(1, 2, 1, 1, "CONFIRMED", <<>>),
     Payload(1, 2, UNDEF, UNDEF, NOSTATUS, <<>>),
     Payload(1, 2, UNDEF, UNDEF, NOSTATUS, <<InactiveLine>>),
     Payload(1, 2, UNDEF, 3, NOSTATUS, <<>>),
     Payload(2, 1, UNDEF, UNDEF, NOSTATUS, <<>>)}

\* updateEvent requests on the same window: no line, a scheduled line, two
\* lines; and a request that names an account that does not exist
WriteUpdateRequests ==
    {Payload(1, 2, UNDEF, UNDEF, NOSTATUS, svcs) :
        svcs \in {<<>>, <<BusyLine>>, <<CostLine1, CostLine4>>}}
      \cup {[Payload(1, 2, UNDEF, UNDEF, NOSTATUS, <<>>) EXCEPT !.account_id = 2]}

\* who calls updateEvent, and how many hours before the event's start: no user,
\* the CUSTOMER who owns the events of account 1, another CUSTOMER, an ADMIN
Callers ==
    {<<NoUser, 0>>,
     <<[role |-> "CUSTOMER", account_id |-> 1], 10>>,
     <<[role |-> "CUSTOMER", account_id |-> 1], 24>>,
     <<[role |-> "CUSTOMER", account_id |-> 1], 30>>,
     <<[role |-> "CUSTOMER", account_id |-> 2], 30>>,
     <<[role |-> "ADMIN", account_id |-> 2], 10>>}

\* the notifier is called, and can throw, for a request with an account
CreateWriteEvent ==
    /\ last.seq < MaxCalls
    /\ \E d \in WriteCreateRequests :
          \/ createEvent(d, FALSE, MaxEvents)
          \/ Truthy(d.account_id) /\ createEvent(d, TRUE, MaxEvents)

\* any request without a user; the request with two lines for the other callers
UpdateWriteEvent ==
    /\ last.seq < MaxCalls
    /\ \E id \in 1..MaxEvents, d \in WriteUpdateRequests, c \in Callers :
          /\ c[1] # NoUser => Len(d.event_services) = 2
          /\ updateEvent(id, d, c[1], c[2])

\* a prisma call of createEvent or of updateEvent throws
FailWriteEvent ==
    /\ last.seq < MaxCalls
    /\ \/ StorageThrows("createEvent", NULL,
                         Payload(1, 2, UNDEF, UNDEF, NOSTATUS, <<CostLine1>>), NoCtx)
       \/ \E id \in 1..MaxEvents :
             StorageThrows("updateEvent", id,
                           Payload(1, 2, UNDEF, UNDEF, NOSTATUS, <<BusyLine>>), NoCtx)

NextWrite == CreateWriteEvent \/ UpdateWriteEvent \/ FailWriteEvent

SpecWrite == Init /\ [][NextWrite]_vars

\* the step is a call of `op` that returned a positive (or a negative) result
CallReturned(op, isValid) ==
    last'.seq = last.seq + 1 /\ last'.op = op /\ last'.isValid = isValid

\* a stored line holds what a line of the request supplied
SuppliedLine(row, service) ==
    /\ row.service_id = service.service_id
    /\ row.variation_id = (IF Present(service.variation_id)
                           THEN service.variation_id ELSE NULL)
    /\ row.quantity = (IF Present(service.quantity) THEN service.quantity ELSE 1)
    /\ row.scheduled_time = (IF Present(service.scheduled_time)
                             THEN service.scheduled_time ELSE NULL)

\* C11: a successful updateEvent with an empty service-line list leaves the
\* event's stored lines unchanged; with a non-empty list it leaves the event with
\* exactly the supplied lines; the lines of every other event are unchanged
UpdateReplacesOnlyOwnLines ==
    [][CallReturned("updateEvent", TRUE) =>
          LET id == last'.id
              event_services == last'.payload.event_services
          IN  /\ event_services = <<>> => eventServices'[id] = eventServices[id]
              /\ event_services # <<>> =>
                    /\ Len(eventServices'[id]) = Len(event_services)
                    /\ \A i \in DOMAIN event_services :
                          SuppliedLine(eventServices'[id][i], event_services[i])
              /\ \A e \in DOMAIN eventServices \ {id} :
                    e \in DOMAIN eventServices'
                      /\ eventServices'[e] = eventServices[e]]_vars

\* C11 witness: an updateEvent replaced the one line of an event by the two
\* lines of the request, while another event has a line of its own
UpdateLinesWitness ==
    /\ LastSucceeded("updateEvent")
    /\ Len(last.payload.event_services) = 2
    /\ Len(last.prev.lines) = 1
    /\ Len(eventServices[last.id]) = 2
    /\ \E e \in DOMAIN eventServices \ {last.id} : eventServices[e] # <<>>

\* C12: a createEvent or an updateEvent that returns a negative result leaves
\* the stored events, service lines, invoices and invoice details as they were
NoWriteOnNegativeResult ==
    [][(CallReturned("createEvent", FALSE) \/ CallReturned("updateEvent", FALSE))
          => UNCHANGED <<events, eventServices, invoices, invoiceDetails>>]_vars

\* C12 witness: a createEvent that passed every check, for an account and with a
\* priced line, returned a negative result because a call inside its
\* transaction threw, while another event is stored
FailedWriteWitness ==
    /\ last.op = "createEvent" /\ ~last.isValid
    /\ last.ctx.fault # "none"
    /\ last.payload.event_services # <<>>
    /\ DOMAIN events # {}
    /\ nextEventId \notin DOMAIN events

\* C13: a createEvent for an account whose notifier call throws still returns a
\* positive result and its event is stored
NotifierFailureKeepsBooking ==
    (last.op = "createEvent" /\ last.ctx.fault = "notifier")
    => (last.isValid /\ last.id \in DOMAIN events)

PolicyErrors ==
    {"You can only update your own events.",
     "You can only update events at least 24 hours in advance."}

\* C14: an updateEvent by a CUSTOMER on a stored event changes the event only
\* if the event's account_id is the caller's and the event starts at least 24
\* hours ahead; otherwise it returns a policy error and the rows of the event
\* are as they were; a caller of another role gets no policy error
CustomerPolicy ==
    (/\ last.op = "updateEvent" /\ last.prev.event # <<>>
     /\ last.ctx.fault = "none")
    => LET user == last.ctx.user
           allowed == /\ last.prev.event[1].account_id = user.account_id
                      /\ last.ctx.hoursAhead >= 24
       IN  IF user.role = "CUSTOMER"
           THEN /\ ~allowed => /\ ~last.isValid
                               /\ last.error \in PolicyErrors
                               /\ RowsOf(last.id) = last.prev
                /\ allowed => last.error \notin PolicyErrors
           ELSE last.error \notin PolicyErrors

\* C14 witness: the CUSTOMER who owns the event updated it exactly 24 hours
\* ahead, and the update replaced the lines of the event
CustomerPolicyWitness ==
    /\ LastSucceeded("updateEvent")
    /\ last.ctx.user.role = "CUSTOMER"
    /\ last.ctx.hoursAhead = 24
    /\ last.prev.event[1].account_id = last.ctx.user.account_id
    /\ eventServices[last.id] # last.prev.lines

\* C19: every stored event references an account that exists, a room that
\* exists and is active and AVAILABLE, an event type that exists and is active,
\* and each of its lines a variation that exists and is active
WrittenReferencesUsable ==
    \A id \in DOMAIN events :
        /\ events[id].account_id # NULL => events[id].account_id \in Account
        /\ events[id].room_id # NULL => ~RoomUnusable(events[id].room_id)
        /\ events[id].event_type_id # NULL
              => ~EventTypeUnusable(events[id].event_type_id)
        /\ \A i \in DOMAIN eventServices[id] :
              eventServices[id][i].variation_id # NULL
              => /\ eventServices[id][i].variation_id \in DOMAIN Variation
                 /\ Variation[eventServices[id][i].variation_id].is_active

(* ------------- the life of an event: toggle, delete, failures --------- *)
\* createEvent requests on the window [1, 2): PENDING or CANCELLED with no line
\* (no invoice), CONFIRMED with a priced line (an invoice); and a request whose
\* window ends before it starts
LifeCreateRequests ==
    {Payload(1, 2, UNDEF, UNDEF, NOSTATUS, <<>>),
     Payload(1, 2, UNDEF, UNDEF, "CONFIRMED", <<CostLine1>>),
     Payload(1, 2, UNDEF, UNDEF, "CANCELLED", <<>>),
     Payload(2, 1, UNDEF, UNDEF, NOSTATUS, <<>>)}

CreateLifeEvent ==
    /\ last.seq < MaxCalls
    /\ \E d \in LifeCreateRequests : createEvent(d, FALSE, MaxEvents)

UpdateLifeEvent ==
    /\ last.seq < MaxCalls
    /\ \E id \in 1..MaxEvents :
          updateEvent(id, Payload(1, 3, UNDEF, UNDEF, NOSTATUS, <<>>), NoUser, 0)

ToggleLifeEvent ==
    /\ last.seq < MaxCalls
    /\ \E id \in 1..MaxEvents : toggleEventStatus(id)

DeleteLifeEvent ==
    /\ last.seq < MaxCalls
    /\ \E id \in 1..MaxEvents, forceDelete \in BOOLEAN : deleteEvent(id, forceDelete)

\* payments, and one review for an event, are recorded while a call can still
\* follow them
PayLifeEvent ==
    /\ last.seq < MaxCalls
    /\ \E id \in 1..MaxEvents : RecordPayment(id)

ReviewLifeEvent ==
    /\ last.seq < MaxCalls
    /\ \E id \in 1..MaxEvents : ReviewsOf(id) = 0 /\ RecordReview(id)

\* a prisma call of one of the four operations throws: of createEvent, or of
\* one of the others for the first event
FailLifeEvent ==
    /\ last.seq < MaxCalls
    /\ \/ StorageThrows("createEvent", NULL,
                         Payload(1, 2, UNDEF, UNDEF, NOSTATUS, <<>>), NoCtx)
       \/ StorageThrows("updateEvent", 1,
                        Payload(1, 3, UNDEF, UNDEF, NOSTATUS, <<>>), NoCtx)
       \/ StorageThrows("toggleEventStatus", 1, NoPayload, NoCtx)
       \/ StorageThrows("deleteEvent", 1, NoPayload,
                        [NoCtx EXCEPT !.forceDelete = TRUE])

NextLife ==
    \/ CreateLifeEvent \/ UpdateLifeEvent \/ ToggleLifeEvent \/ DeleteLifeEvent
    \/ PayLifeEvent \/ ReviewLifeEvent \/ FailLifeEvent

SpecLife == Init /\ [][NextLife]_vars

\* C15: a successful toggleEventStatus leaves the event as it was but for its
\* status, CONFIRMED if it was PENDING and PENDING otherwise; the second of two
\* successive toggles of an event that was PENDING or CONFIRMED gives it back
\* the status it had before the first
ToggleFlipsStatus ==
    LastSucceeded("toggleEventStatus")
    => LET before == last.prev.event[1]
       IN  /\ events[last.id] =
                 [before EXCEPT !.status = IF before.status = "PENDING"
                                           THEN "CONFIRMED" ELSE "PENDING"]
           /\ RowsOf(last.id).lines = last.prev.lines
           /\ RowsOf(last.id).invoice = last.prev.invoice
           /\ RowsOf(last.id).details = last.prev.details
           /\ (/\ last.before.op = "toggleEventStatus" /\ last.before.isValid
               /\ last.before.id = last.id
               /\ last.before.event[1].status \in {"PENDING", "CONFIRMED"})
              => events[last.id].status = last.before.event[1].status

\* C15 witness: an event created CONFIRMED, with a line and an invoice, was
\* toggled twice
ToggleTwiceWitness ==
    /\ LastSucceeded("toggleEventStatus")
    /\ last.before.op = "toggleEventStatus" /\ last.before.isValid
    /\ last.before.id = last.id
    /\ last.before.event[1].status = "CONFIRMED"
    /\ last.prev.event[1].status = "PENDING"
    /\ events[last.id].status = "CONFIRMED"
    /\ last.prev.invoice # <<>>

\* the step is a deleteEvent of a stored event in which no call threw
DeleteStep(forceDelete) ==
    /\ last'.seq = last.seq + 1 /\ last'.op = "deleteEvent"
    /\ last'.ctx.forceDelete = forceDelete /\ last'.ctx.fault = "none"
    /\ last'.id \in DOMAIN events

\* C16: deleteEvent without forceDelete on an event that has a service line, an
\* invoice, a payment or a review returns a negative result that carries the
\* number of its lines, payments and reviews and whether it has an invoice, and
\* changes nothing; on an event with none of them it deletes the event
DeleteRefusedWithCounts ==
    [][DeleteStep(FALSE) =>
          LET id == last'.id
              lines == Len(eventServices[id])
              paid == IF id \in DOMAIN payments THEN payments[id] ELSE 0
              reviewed == IF id \in DOMAIN reviews THEN reviews[id] ELSE 0
              invoiced == id \in DOMAIN invoices
          IN  IF lines > 0 \/ invoiced \/ paid > 0 \/ reviewed > 0
              THEN /\ ~last'.isValid
                   /\ last'.data = [eventServicesCount |-> lines,
                                    paymentsCount |-> paid,
                                    reviewsCount |-> reviewed,
                                    hasInvoice |-> invoiced]
                   /\ UNCHANGED stores
              ELSE /\ last'.isValid
                   /\ id \notin DOMAIN events']_vars

\* C16 witness: the deletion of an event with one line, an invoice, two
\* payments and one review was refused
DeleteRefusedWitness ==
    /\ last.op = "deleteEvent" /\ ~last.isValid
    /\ last.error = "Cannot delete event"
    /\ ~last.ctx.forceDelete
    /\ last.data.eventServicesCount = 1 /\ last.data.hasInvoice
    /\ last.data.paymentsCount = MaxDependents /\ last.data.reviewsCount = 1
    /\ last.id \in DOMAIN events

\* the rows of every event but one are the same in the next state
OthersUntouched(id) ==
    /\ \A e \in DOMAIN events \ {id} :
          e \in DOMAIN events' /\ events'[e] = events[e]
    /\ \A e \in DOMAIN eventServices \ {id} :
          e \in DOMAIN eventServices' /\ eventServices'[e] = eventServices[e]
    /\ \A e \in DOMAIN invoices \ {id} :
          e \in DOMAIN invoices' /\ invoices'[e] = invoices[e]
    /\ \A e \in DOMAIN invoiceDetails \ {id} :
          e \in DOMAIN invoiceDetails' /\ invoiceDetails'[e] = invoiceDetails[e]
    /\ \A e \in DOMAIN payments \ {id} :
          e \in DOMAIN payments' /\ payments'[e] = payments[e]
    /\ \A e \in DOMAIN reviews \ {id} :
          e \in DOMAIN reviews' /\ reviews'[e] = reviews[e]

\* C17: a successful deleteEvent with forceDelete leaves no event, service line,
\* invoice, invoice detail, payment or review of that event and leaves the rows
\* of the other events as they were; a deleteEvent with forceDelete that fails
\* deletes nothing
ForceDeleteRemovesAll ==
    [][(/\ last'.seq = last.seq + 1 /\ last'.op = "deleteEvent"
        /\ last'.ctx.forceDelete /\ last'.id \in DOMAIN events) =>
          LET id == last'.id
          IN  IF last'.isValid
              THEN /\ id \notin DOMAIN events'
                   /\ id \notin DOMAIN eventServices'
                   /\ id \notin DOMAIN invoices'
                   /\ id \notin DOMAIN invoiceDetails'
                   /\ id \notin DOMAIN payments'
                   /\ id \notin DOMAIN reviews'
                   /\ OthersUntouched(id)
              ELSE UNCHANGED stores]_vars

\* C17 witness: an event with a line, an invoice with a detail, a payment and a
\* review was deleted with forceDelete while another event with an invoice is
\* stored
ForceDeleteWitness ==
    /\ LastSucceeded("deleteEvent")
    /\ last.ctx.forceDelete
    /\ last.prev.lines # <<>> /\ last.prev.invoice # <<>>
    /\ last.prev.details # <<>>
    /\ last.data.deletedPayments > 0 /\ last.data.deletedReviews > 0
    /\ DOMAIN invoices # {} /\ DOMAIN invoiceDetails # {}

\* C18: deleteEvent, toggleEventStatus and updateEvent with an id that matches
\* no stored event return a negative result, "Event not found" unless a call
\* threw, and change nothing
UnknownIdIsNotFound ==
    [][(/\ last'.seq = last.seq + 1
        /\ last'.op \in {"deleteEvent", "toggleEventStatus", "updateEvent"}
        /\ last'.id \notin DOMAIN events) =>
          /\ ~last'.isValid
          /\ last'.ctx.fault = "none" => last'.error = "Event not found"
          /\ UNCHANGED stores]_vars

\* C18 witness: a deleteEvent with forceDelete of an id that is not stored,
\* while another event is, was answered "Event not found"
UnknownIdWitness ==
    /\ last.op = "deleteEvent" /\ last.ctx.forceDelete
    /\ last.error = "Event not found"
    /\ last.id \notin DOMAIN events
    /\ DOMAIN events # {}

Operations == {"createEvent", "updateEvent", "deleteEvent", "toggleEventStatus"}

\* C20: a call in which an exception was thrown is answered with a 5xx status,
\* and it is the only one; every other negative result is answered with a 4xx
\* status
OnlyInternalFailureIs5xx ==
    last.op \in Operations
    => /\ (last.ctx.fault # "none")
            <=> (ResponseStatus(last.op, last.isValid) >= 500)
       /\ (~last.isValid /\ last.ctx.fault = "none")
            => ResponseStatus(last.op, last.isValid) \in 400..499

(* ------------------------- what a conflict returns -------------------- *)
ConflictErrors ==
    {"Room is already booked for the requested time",
     "Variation is busy during the requested time slot"}

\* C21: a createEvent or an updateEvent that is rejected because the requested
\* window overlaps a CONFIRMED booking, of a room or of a variation, returns the
\* list of the conflicting records with the error
ConflictReturnsRecords ==
    (/\ last.op \in {"createEvent", "updateEvent"} /\ ~last.isValid
     /\ last.error \in ConflictErrors)
    => last.data # NoData

(* ------------- the fields of an event: create, update, toggle --------- *)
\* createEvent requests for room 1 on [1, 2) with a duration: with no status,
\* CONFIRMED with a date of its own; and requests with a status that is not
\* known, and with the empty string for a status
FieldCreateRequests ==
    {Payload(1, 2, 1, 1, NOSTATUS, <<>>),
     [Payload(1, 2, 1, 1, "CONFIRMED", <<>>) EXCEPT !.event_date = 48],
     Payload(1, 2, UNDEF, UNDEF, "BOGUS", <<>>),
     Payload(1, 2, UNDEF, UNDEF, "", <<>>)}

\* an updateEvent payload that supplies a status and nothing else
OnlyStatus == [NoPayload EXCEPT !.event_name = "", !.status = "CONFIRMED"]

\* updateEvent requests: the status alone, a name and a new window, and a name
\* and a window with a status that is not known or is the empty string
FieldUpdateRequests ==
    {OnlyStatus,
     Payload(2, 3, UNDEF, UNDEF, NOSTATUS, <<>>),
     Payload(1, 3, UNDEF, UNDEF, "BOGUS", <<>>),
     Payload(1, 3, UNDEF, UNDEF, "", <<>>)}

CreateFieldEvent ==
    /\ last.seq < MaxCalls
    /\ \E d \in FieldCreateRequests : createEvent(d, FALSE, MaxEvents)

UpdateFieldEvent ==
    /\ last.seq < MaxCalls
    /\ \E id \in 1..MaxEvents, d \in FieldUpdateRequests :
          updateEvent(id, d, NoUser, 0)

ToggleFieldEvent ==
    /\ last.seq < MaxCalls
    /\ \E id \in 1..MaxEvents : toggleEventStatus(id)

NextFields == CreateFieldEvent \/ UpdateFieldEvent \/ ToggleFieldEvent

SpecFields == Init /\ [][NextFields]_vars

\* C22: an updateEvent of a stored event whose payload supplies a subset of the
\* fields only (no name, no start_time, no end_time) and nothing invalid passes
\* field validation and updates the event
PartialUpdateAccepted ==
    (/\ last.op = "updateEvent" /\ last.prev.event # <<>>
     /\ last.payload.event_name = ""
     /\ ~Present(last.payload.start_time) /\ ~Present(last.payload.end_time)
     /\ last.payload.status \in EVENT_STATUSES)
    => last.isValid

\* C23: after a successful updateEvent every field of the event that the
\* payload did not supply holds the value it held before the call
UpdateKeepsUnsuppliedFields ==
    LastSucceeded("updateEvent")
    => LET before == last.prev.event[1]
           after  == events[last.id]
           d      == last.payload
       IN  /\ d.start_time = UNDEF => after.start_time = before.start_time
           /\ d.end_time = UNDEF => after.end_time = before.end_time
           /\ d.event_date = UNDEF => after.event_date = before.event_date
           /\ d.status = NOSTATUS => after.status = before.status
           /\ d.account_id = UNDEF => after.account_id = before.account_id
           /\ d.room_id = UNDEF => after.room_id = before.room_id
           /\ d.event_type_id = UNDEF
                 => after.event_type_id = before.event_type_id

\* the errors of the checks that come before the check of the status
ErrorsBeforeStatus ==
    {"Event not found", "Event name is required", "Invalid event date range"}

ToggleKeepsRoomsFree ==
    [][(CallReturned("toggleEventStatus", TRUE) /\ NoConfirmedRoomOverlap)
         => NoConfirmedRoomOverlap']_vars

(* ------------- updateEvent and the lines of its own event ------------- *)
\* a stored line is CONFIRMED, of the variation of a scheduled line of a
\* request, and overlaps it
LineBusyWith(row, service) ==
    /\ row.variation_id = service.variation_id
    /\ row.status = "CONFIRMED"
    /\ row.scheduled_time # NULL
    /\ Overlaps(service.scheduled_time,
                service.scheduled_time + service.duration_hours,
                row.scheduled_time, row.scheduled_time + StoredDuration(row))

\* the lines stored before the last call: those of its event, and those of the
\* other events, which an updateEvent leaves alone
LinesBeforeLast ==
    {last.prev.lines[i] : i \in DOMAIN last.prev.lines}
      \cup UNION {{eventServices[e][i] : i \in DOMAIN eventServices[e]} :
                     e \in DOMAIN eventServices \ {last.id}}

\* C30: an updateEvent succeeds only if no scheduled line of its payload
\* overlapped a CONFIRMED line of the same variation stored before the call,
\* the lines of the updated event itself included
UpdateChecksOwnLines ==
    LastSucceeded("updateEvent")
    => \A i \in DOMAIN last.payload.event_services :
          LET service == last.payload.event_services[i]
          IN  (/\ Truthy(service.variation_id) /\ Truthy(service.scheduled_time)
               /\ Truthy(service.duration_hours))
              => \A row \in LinesBeforeLast : ~LineBusyWith(row, service)

\* an updateEvent was rejected as busy because of a line of the updated event
UpdateOwnLineWitness ==
    /\ last.op = "updateEvent" /\ ~last.isValid
    /\ last.error = "Variation is busy during the requested time slot"
    /\ \A k \in last.data : k[1] = last.id
    /\ last.data # NoData

(* ------------------- the booking-confirmation notification ------------ *)
\* createEvent requests on the window [1, 2): for account 1, and for no account
NotifyCreateRequests ==
    {[Payload(1, 2, UNDEF, UNDEF, NOSTATUS, <<>>) EXCEPT !.account_id = 1],
     Payload(1, 2, UNDEF, UNDEF, NOSTATUS, <<>>)}

CreateNotifyEvent ==
    /\ last.seq < MaxCalls
    /\ \E d \in NotifyCreateRequests, notifierThrows \in BOOLEAN :
          createEvent(d, notifierThrows, MaxEvents)

CommitFailsNotifyEvent ==
    /\ last.seq < MaxCalls
    /\ \E d \in NotifyCreateRequests : createEventCommitFails(d)

UpdateNotifyEvent ==
    /\ last.seq < MaxCalls
    /\ \E id \in 1..MaxEvents :
          updateEvent(id, Payload(1, 3, UNDEF, UNDEF, NOSTATUS, <<>>), NoUser, 0)

ToggleNotifyEvent ==
    /\ last.seq < MaxCalls
    /\ \E id \in 1..MaxEvents : toggleEventStatus(id)

DeleteNotifyEvent ==
    /\ last.seq < MaxCalls
    /\ \E id \in 1..MaxEvents : deleteEvent(id, FALSE)

NextNotify ==
    \/ CreateNotifyEvent \/ CommitFailsNotifyEvent \/ UpdateNotifyEvent
    \/ ToggleNotifyEvent \/ DeleteNotifyEvent

SpecNotify == Init /\ [][NextNotify]_vars

\* C29: a notification is emitted by a step only if the step is a createEvent
\* that returned a positive result for an event with an account and stored that
\* event, and each such createEvent emits exactly one, for its event
NotificationOnlyOnCommit ==
    [][/\ notifications' # notifications
          => /\ CallReturned("createEvent", TRUE)
             /\ Truthy(last'.payload.account_id)
             /\ last'.id \in DOMAIN events'
             /\ notifications' = notifications \cup {last'.id}
       /\ (CallReturned("createEvent", TRUE) /\ Truthy(last'.payload.account_id))
          => /\ last'.id \notin notifications
             /\ notifications' = notifications \cup {last'.id}]_vars

(* --------------------- toggleEventStatus, concurrently ---------------- *)
\* toggleEventStatus up to the return of prisma.event.findUnique: the status
\* that this call will flip is the one read here
BeginToggle(tid, id) ==
    /\ Cardinality(txs) < MaxTxs
    /\ \A t \in txs : t.tid # tid
    /\ id \in DOMAIN events
    /\ txs' = txs \cup {[tid |-> tid, id |-> id, status |-> events[id].status]}
    /\ UNCHANGED <<stores, last, observe>>

\* toggleEventStatus from prisma.event.update to its return
CommitToggle(t) ==
    /\ t \in txs
    /\ events' = [events EXCEPT ![t.id].status = NewStatus(t.status)]
    /\ UNCHANGED <<eventServices, invoices, invoiceDetails, nextEventId,
                   notifications, payments, reviews>>
    /\ last' = Call("toggleEventStatus", t.id, NoPayload,
                    createValidationResult(TRUE, "", NoData), NULL, RowsOf(t.id))
    /\ txs' = txs \ {t}
    /\ UNCHANGED observe

\* createEvent requests on the window [1, 2): PENDING, CONFIRMED, CANCELLED
ToggleCreateRequests ==
    {Payload(1, 2, UNDEF, UNDEF, status, <<>>) :
        status \in {NOSTATUS, "CONFIRMED", "CANCELLED"}}

CreateToggleEvent == \E d \in ToggleCreateRequests : createEvent(d, FALSE, MaxEvents)

BeginConcurrentToggle == \E tid \in 1..MaxTxs, id \in 1..MaxEvents : BeginToggle(tid, id)

CommitConcurrentToggle == \E t \in txs : CommitToggle(t)

NextToggle == CreateToggleEvent \/ BeginConcurrentToggle \/ CommitConcurrentToggle

SpecToggle == InitStores /\ [][NextToggle]_vars

\* C28: the write of every toggleEventStatus, whatever runs beside it, flips the
\* status its event holds when the write is applied, as the second of two
\* toggles run one after the other does
ToggleWriteFlipsStoredStatus ==
    [][\A t \in txs :
          t \notin txs' => events'[t.id].status = NewStatus(events[t.id].status)]_vars

(* ------------------------- updateEvent, concurrently ------------------ *)
\* updateEvent up to the start of its transaction: existingEvent is read with
\* prisma.event.findUnique, and the policy and the payload are checked
BeginUpdate(tid, id, d) ==
    /\ last.seq + Cardinality(txs) < MaxCalls
    /\ Cardinality(txs) < MaxTxs
    /\ \A t \in txs : t.tid # tid
    /\ IF id \notin DOMAIN events
       THEN /\ last' = Call("updateEvent", id, d, NotFound, NULL, RowsOf(id))
            /\ UNCHANGED txs
       ELSE IF ~UpdatePreChecks(events[id], d, NoUser, 0).isValid
       THEN /\ last' = Call("updateEvent", id, d,
                            UpdatePreChecks(events[id], d, NoUser, 0), NULL,
                            RowsOf(id))
            /\ UNCHANGED txs
       ELSE /\ txs' = txs \cup {[tid |-> tid, id |-> id, d |-> d,
                                 existingEvent |-> events[id]]}
            /\ UNCHANGED last
    /\ UNCHANGED <<stores, observe>>

\* the transaction of updateEvent, from its first check to its commit, with the
\* existingEvent read before it began
CommitUpdate(t) ==
    /\ t \in txs
    /\ LET checks == UpdateTxChecks(t.id, t.d, t.existingEvent)
       IN  IF ~checks.isValid
           THEN /\ last' = Call("updateEvent", t.id, t.d, checks, NULL,
                                RowsOf(t.id))
                /\ UNCHANGED stores
           ELSE /\ UpdateCost(t.existingEvent, t.d) <= MaxCost
                /\ UpdateWritesFrom(t.id, t.d, t.existingEvent)
                /\ last' = Call("updateEvent", t.id, t.d, checks,
                                UpdateCost(t.existingEvent, t.d), RowsOf(t.id))
    /\ txs' = txs \ {t}
    /\ UNCHANGED observe

\* createEvent requests on the window [1, 2): with no line (no invoice), and
\* with a priced line (an invoice)
ConcUpdateCreateRequests ==
    {Payload(1, 2, UNDEF, UNDEF, NOSTATUS, <<>>),
     Payload(1, 2, UNDEF, UNDEF, NOSTATUS, <<CostLine1>>)}

\* updateEvent requests: a new window with no line, with a priced line; and a
\* request whose window ends before it starts
ConcUpdateRequests ==
    {Payload(1, 3, UNDEF, UNDEF, NOSTATUS, <<>>),
     Payload(1, 3, UNDEF, UNDEF, NOSTATUS, <<CostLine1>>),
     Payload(2, 1, UNDEF, UNDEF, NOSTATUS, <<>>)}

CreateForUpdate ==
    /\ last.seq < MaxCalls
    /\ \E d \in ConcUpdateCreateRequests : createEvent(d, FALSE, MaxEvents)

BeginConcurrentUpdate ==
    \E tid \in 1..MaxTxs, id \in 1..MaxEvents, d \in ConcUpdateRequests :
        BeginUpdate(tid, id, d)

CommitConcurrentUpdate == \E t \in txs : CommitUpdate(t)

NextUpdate == CreateForUpdate \/ BeginConcurrentUpdate \/ CommitConcurrentUpdate

SpecUpdate == Init /\ [][NextUpdate]_vars

\* C26: when the transaction of an updateEvent commits, the event it stores is
\* the one an updateEvent run whole at that moment stores, so that concurrent
\* updates of an event leave what they leave run one after the other, in the
\* order of their commits
UpdateCommitUsesCurrentState ==
    [][\A t \in txs :
          (t \notin txs' /\ last'.isValid)
          => events'[t.id] = UpdatedEventRow(events[t.id], t.d)]_vars

(* --------------- the pre-filter of checkVariationAvailability --------- *)
\* new Date(null) is the first instant of 1970: on the model's clock, whose
\* hour 1 is an hour of a booking, it lies far before every window
Epoch == 0 - 1000

\* const evStart = new Date(ev.scheduled_time)
EvStart(row) == IF row.scheduled_time = NULL THEN Epoch ELSE row.scheduled_time

\* the filter of checkVariationAvailability applied to every stored CONFIRMED
\* line of the variation, with no pre-filter
ConflictsOfAllConfirmed(variation_id, startTime, endTime) ==
    {k \in ConfirmedLines(variation_id) :
        Overlaps(startTime, endTime, EvStart(LineOf(k)),
                 EvStart(LineOf(k)) + StoredDuration(LineOf(k)))}

\* C31: for every variation and every proposed window of positive duration, the
\* conflicts found among the pre-filtered candidates (scheduled_time <= the
\* proposed end) are the conflicts found among all the CONFIRMED lines of the
\* variation: the pre-filter drops no conflicting line
PrefilterDropsNoConflict ==
    \A v \in DOMAIN Variation, s \in 1..MaxTime, dur \in 1..MaxTime :
        ConflictingEvents(v, s, s + dur) = ConflictsOfAllConfirmed(v, s, s + dur)

\* the pre-filter has dropped a CONFIRMED line of variation 3 (one with no
\* scheduled_time), has kept a line that starts where the window [1, 2) ends
\* and does not conflict with it, and has kept a line that starts inside the
\* window [1, 3) and conflicts with it
PrefilterWitness ==
    /\ Candidates(3, 3) # ConfirmedLines(3)
    /\ \E k \in Candidates(3, 2) :
          /\ LineOf(k).scheduled_time = 2
          /\ k \notin ConflictingEvents(3, 1, 2)
          /\ k \in ConflictingEvents(3, 1, 3)

(* ------------------------- the sort order of the lists ---------------- *)
\* a value of the query string or of the options: undefined, null, a string, or
\* an array of strings (a parameter given twice)
SortValue(kind, text) == [kind |-> kind, text |-> text]

Undefined == SortValue("undefined", "")

validSortFields ==
    {"event_name", "start_time", "end_time", "estimated_cost", "final_cost",
     "room_service_fee", "date_create", "status"}

validSortOrders == {"asc", "desc"}

\* String.prototype.toLowerCase on the strings of the model
toLowerCase(text) ==
    CASE text = "ASC" -> "asc"
      [] text = "DESC" -> "desc"
      [] text = "Desc" -> "desc"
      [] OTHER -> text

\* validSortFields.includes(sortBy) ? sortBy : 'date_create'
SortField(sortBy) ==
    IF sortBy.kind = "string" /\ sortBy.text \in validSortFields
    THEN sortBy.text ELSE "date_create"

\* sortOrder?.toLowerCase(): undefined for undefined and null, the lowered
\* string for a string; a value of another type has no toLowerCase and the call
\* throws a TypeError
LoweringThrows(sortOrder) == sortOrder.kind \notin {"undefined", "null", "string"}

\* validSortOrders.includes(sortOrder?.toLowerCase())
\*     ? sortOrder.toLowerCase() : 'asc'
SortDirection(sortOrder) ==
    IF sortOrder.kind = "string" /\ toLowerCase(sortOrder.text) \in validSortOrders
    THEN toLowerCase(sortOrder.text) ELSE "asc"

\* buildSortOrder(sortBy, sortOrder): { [field]: order }, or the throw
buildSortOrder(sortBy, sortOrder) ==
    [threw |-> LoweringThrows(sortOrder),
     orderBy |-> IF LoweringThrows(sortOrder) THEN {}
                 ELSE {<<SortField(sortBy), SortDirection(sortOrder)>>}]

\* value || fallback, and the default of the destructuring for undefined
OrDefault(value, fallback) ==
    IF value.kind \in {"undefined", "null"} \/ (value.kind = "string" /\ value.text = "")
    THEN SortValue("string", fallback) ELSE value

\* a list operation from its controller to its result: the sort order is built
\* inside the try block of the service, whose catch returns handleError
ListEvents(op, sortBy, sortOrder, defaultSortBy) ==
    /\ txs = {}
    /\ LET built == buildSortOrder(OrDefault(sortBy, defaultSortBy),
                                   OrDefault(sortOrder, "asc"))
       IN  last' = Call(op, NULL, [sortBy |-> sortBy, sortOrder |-> sortOrder],
                        IF built.threw
                        THEN handleError("sortOrder?.toLowerCase is not a function")
                        ELSE createValidationResult(TRUE, "", built.orderBy),
                        NULL, NoRows)
    /\ UNCHANGED <<stores, observe, txs>>

\* getAllEventsController: sortBy: req.query.sortBy || "date_create"
getAllEvents(sortBy, sortOrder) ==
    ListEvents("getAllEvents", sortBy, sortOrder, "date_create")

\* getEventsByEventTypeIdController: sortBy: req.query.sortBy || "event_date"
getEventsByEventTypeId(sortBy, sortOrder) ==
    ListEvents("getEventsByEventTypeId", sortBy, sortOrder, "event_date")

\* sort fields of a request: none, a known one, unknown ones, one given twice
SortByInputs ==
    {Undefined, SortValue("string", "start_time"), SortValue("string", "event_date"),
     SortValue("string", "Status"), SortValue("array", "status")}

\* directions of a request: none, known ones in either case, an unknown one,
\* one given twice
SortOrderInputs ==
    {Undefined, SortValue("string", "desc"), SortValue("string", "DESC"),
     SortValue("string", "sideways"), SortValue("array", "desc")}

ListAllEvents ==
    /\ last.seq < MaxCalls
    /\ \E sortBy \in SortByInputs, sortOrder \in SortOrderInputs :
          getAllEvents(sortBy, sortOrder)

ListEventsByType ==
    /\ last.seq < MaxCalls
    /\ \E sortBy \in SortByInputs, sortOrder \in SortOrderInputs :
          getEventsByEventTypeId(sortBy, sortOrder)

NextList == ListAllEvents \/ ListEventsByType

SpecList == Init /\ [][NextList]_vars

ListOperations == {"getAllEvents", "getEventsByEventTypeId"}

\* C32: every list operation succeeds and sorts by exactly one field of
\* validSortFields in a direction of validSortOrders: the field of the request
\* when it is a known one and date_create otherwise, the direction of the
\* request when it is a known one and asc otherwise
SortFallsBackSilently ==
    last.op \in ListOperations
    => /\ last.isValid
       /\ last.data =
            {<<IF last.payload.sortBy.text \in validSortFields
                    /\ last.payload.sortBy.kind = "string"
               THEN last.payload.sortBy.text ELSE "date_create",
               IF last.payload.sortOrder.kind = "string"
                    /\ toLowerCase(last.payload.sortOrder.text) \in validSortOrders
               THEN toLowerCase(last.payload.sortOrder.text) ELSE "asc">>}

=============================================================================
